---------------------------- MODULE Spec2Model ----------------------------
(***************************************************************************)
(* CleanTrack: the local-first synchronization layer.                      *)
(*                                                                         *)
(* The model covers storageService (read-through load with local fallback, *)
(* best-effort remote propagation), the App component that owns the        *)
(* in-memory collections (React state, handlers and effects), the part of  *)
(* TaskForm that builds the record handed to handleAddTask, the browser's  *)
(* localStorage slots and the two remote tables.                           *)
(*                                                                         *)
(* Two App variants of the repository call storageService.fetch*: the one  *)
(* with the cache-sync effects and the guarded area handlers ("cloud") and *)
(* the mobile layout with inline area handlers ("mobile").  The variable   *)
(* app says which of the two is running.                                   *)
(***************************************************************************)
EXTENDS Integers, Sequences, FiniteSets, TLC

VARIABLES
    app,             \* which App component is mounted: "cloud" or "mobile"
    tasks,           \* App state: useState<HousekeepingTask[]>
    availableAreas,  \* App state: useState<AreaItem[]>
    isLoading,       \* App state: useState(true)
    editingTask,     \* App state: <<>> (undefined) or <<task>>
    isFormOpen,      \* App state: the TaskForm modal is shown
    filterPeriod,    \* App state: useState<FilterPeriod>('daily')
    currentDate,     \* App state: the reference date of the filter, YYYY-MM-DD
    timeZone,        \* the client's offset from UTC, in hours (local = UTC + offset)
    localStorage,    \* the two cache slots, by key
    remoteTasks,     \* rows of the remote table "tasks"
    remoteAreas,     \* rows of the remote table "areas"
    fetchedTasks,    \* the promise of fetchTasks() inside initData
    fetchedAreas,    \* the promise of fetchAreas() inside initData
    inflight,        \* handler invocations suspended on a remote call
    nextId,          \* how many ids crypto.randomUUID() has handed out
    restarts,        \* how many times the page has been reloaded
    ops,             \* how many mutations the user has issued
    last,            \* observation: the step that was taken last
    prevUpsert       \* observation: record of the latest handleAddTask call,
                     \* <<>> once the task collection was changed by anything else

vars == <<app, tasks, availableAreas, isLoading, editingTask, isFormOpen,
          filterPeriod, currentDate, timeZone,
          localStorage, remoteTasks, remoteAreas, fetchedTasks, fetchedAreas,
          inflight, nextId, restarts, ops, last, prevUpsert>>

\* the state the date filter reads besides the tasks
view == <<filterPeriod, currentDate, timeZone>>

-----------------------------------------------------------------------------
(* Bounds of the model *)

MaxTasks == 3
MaxAreas == 6
MaxInFlight == 2
MaxNewIds == 2
MaxRestarts == 1
MaxOps == 3
MaxDays == 90
MaxSpan == 8

-----------------------------------------------------------------------------
(* Values *)

Undefined == "<undefined>"
Null == "<null>"
Today == "2024-03-12"
CreatedAt == "2024-03-01T00:00:00Z"

TASKS_KEY == "cleantrack_tasks_v1"
AREAS_KEY == "cleantrack_areas_v1"

\* r.f in JavaScript: a missing property reads as undefined
Get(r, f) == IF f \in DOMAIN r THEN r[f] ELSE Undefined

\* a falsy string-or-undefined value
Falsy(v) == v \in {Undefined, Null, ""}

\* Array.prototype.filter for a predicate given as the set of kept elements
SelectSeqBy(s, keep) == SelectSeq(s, LAMBDA x : x \in keep)

Range(s) == {s[i] : i \in DOMAIN s}

MkTask(id, area, category, jd, st, rem) ==
    [id |-> id, date |-> Today, area |-> area, category |-> category,
     jobDescription |-> jd, assignee |-> "Budi", status |-> st, remarks |-> rem,
     photoBefore |-> "", photoProgress |-> "", photoAfter |-> ""]

MkArea(name, category) == [name |-> name, category |-> category]

INITIAL_TASKS ==
    << MkTask("1", "Lobby", "Indoor", "Vacuum Carpet", "Completed", "Done deeply") >>

INITIAL_AREAS ==
    << MkArea("Lobby", "Indoor"), MkArea("Restrooms", "Indoor"),
       MkArea("Corridors", "Indoor"), MkArea("Pool Area", "Outdoor"),
       MkArea("Gym", "Facilities") >>

-----------------------------------------------------------------------------
(* Dates: the YYYY-MM-DD strings of the program and the Date objects of the *)
(* JavaScript engine.  A Date is a point in time, counted here in hours     *)
(* since 1970-01-01T00:00Z; the program only ever builds Dates from date-   *)
(* only strings and moves them by whole days.                              *)

\* days since 1970-01-01 of the civil date y-m-d (proleptic Gregorian)
DaysFromCivil(y, m, d) ==
    LET yy == IF m <= 2 THEN y - 1 ELSE y
        era == yy \div 400
        yoe == yy - era * 400
        mp == (m + 9) % 12
        doy == (153 * mp + 2) \div 5 + d - 1
        doe == yoe * 365 + yoe \div 4 - yoe \div 100 + doy
    IN era * 146097 + doe - 719468

\* the civil date of a day number, as [y, m, d]
CivilFromDays(n) ==
    LET z == n + 719468
        era == z \div 146097
        doe == z - era * 146097
        yoe == (doe - doe \div 1460 + doe \div 36524 - doe \div 146096) \div 365
        doy == doe - (365 * yoe + yoe \div 4 - yoe \div 100)
        mp == (5 * doy + 2) \div 153
        d == doy - (153 * mp + 2) \div 5 + 1
        m == IF mp < 10 THEN mp + 3 ELSE mp - 9
    IN [y |-> IF m <= 2 THEN yoe + era * 400 + 1 ELSE yoe + era * 400, m |-> m, d |-> d]

Pad2(n) == IF n < 10 THEN "0" \o ToString(n) ELSE ToString(n)

\* date.toISOString().split('T')[0]: the UTC calendar date of a Date
toISODate(t) ==
    LET c == CivilFromDays(t \div 24) IN
    ToString(c.y) \o "-" \o Pad2(c.m) \o "-" \o Pad2(c.d)

\* the first day the model's calendar covers, and the days it covers
FirstDay == DaysFromCivil(2023, 12, 20)
Days == FirstDay .. (FirstDay + MaxDays - 1)

\* the date strings a date input can hold, within the calendar
DateStrings == {toISODate(24 * n) : n \in Days}

\* the days a Date of the program can fall on: getWeekRange moves a Date by
\* up to a week, and by up to a month more when it leaves the month
Calendar == (FirstDay - 45) .. (FirstDay + MaxDays + 14)

\* new Date("YYYY-MM-DD"): a date-only string is read as midnight UTC
ParseTable ==
    [s \in {toISODate(24 * n) : n \in Calendar} |->
        24 * (CHOOSE n \in Calendar : toISODate(24 * n) = s)]
NewDate(s) == ParseTable[s]

\* the calendar fields of a Date in the client's time zone
LocalCivil(t, tz) == CivilFromDays((t + tz) \div 24)
getFullYear(t, tz) == LocalCivil(t, tz).y
getMonth(t, tz) == LocalCivil(t, tz).m - 1
getDate(t, tz) == LocalCivil(t, tz).d
\* 1970-01-01 was a Thursday; 0 is Sunday
getDay(t, tz) == (((t + tz) \div 24) + 4) % 7

\* date.setDate(n): day n of the Date's local month (n < 1 and n beyond the
\* month's end run into the neighbouring months), local time of day kept
setDate(t, tz, n) ==
    LET c == LocalCivil(t, tz) IN
    24 * (DaysFromCivil(c.y, c.m, 1) + n - 1) + ((t + tz) % 24) - tz

\* a <= b on YYYY-MM-DD strings: the comparison by code units is the
\* comparison of year, month, day in this order
StrLE(a, b) ==
    LET x == CivilFromDays(NewDate(a) \div 24)
        y == CivilFromDays(NewDate(b) \div 24)
    IN \/ x.y < y.y
       \/ x.y = y.y /\ x.m < y.m
       \/ x.y = y.y /\ x.m = y.m /\ x.d <= y.d

-----------------------------------------------------------------------------
(* dateUtils *)

\* getWeekRange: curr is one Date object, moved twice by setDate
getWeekRange(dateString, tz) ==
    LET curr == NewDate(dateString)
        first == getDate(curr, tz) - getDay(curr, tz)
        last2 == first + 6
        firstDay == setDate(curr, tz, first)
        lastDay == setDate(firstDay, tz, last2)
    IN [start |-> toISODate(firstDay), end |-> toISODate(lastDay)]

\* InPeriod with 'yearly' reading the UTC year (getUTCFullYear)
InPeriod_YearlyUTC(task, period, refDate, tz) ==
    LET targetDate == NewDate(refDate)
        taskDate == NewDate(task.date)
    IN
    IF period = "daily" THEN task.date = refDate
    ELSE IF period = "weekly"
    THEN LET r == getWeekRange(refDate, tz) IN
         StrLE(r.start, task.date) /\ StrLE(task.date, r.end)
    ELSE IF period = "monthly"
    THEN /\ getMonth(taskDate, tz) = getMonth(targetDate, tz)
         /\ getFullYear(taskDate, tz) = getFullYear(targetDate, tz)
    ELSE IF period = "yearly"
    THEN getFullYear(taskDate, 0) = getFullYear(targetDate, 0)
    ELSE TRUE

\* InPeriod with 'daily' comparing the day of the month (getDate)
InPeriod_DailyByDayOfMonth(task, period, refDate, tz) ==
    LET targetDate == NewDate(refDate)
        taskDate == NewDate(task.date)
    IN
    IF period = "daily" THEN getDate(taskDate, tz) = getDate(targetDate, tz)
    ELSE IF period = "weekly"
    THEN LET r == getWeekRange(refDate, tz) IN
         StrLE(r.start, task.date) /\ StrLE(task.date, r.end)
    ELSE IF period = "monthly"
    THEN /\ getMonth(taskDate, tz) = getMonth(targetDate, tz)
         /\ getFullYear(taskDate, tz) = getFullYear(targetDate, tz)
    ELSE IF period = "yearly"
    THEN getFullYear(taskDate, tz) = getFullYear(targetDate, tz)
    ELSE TRUE

\* the predicate of the filter in filterTasks
InPeriod(task, period, refDate, tz) ==
    LET targetDate == NewDate(refDate)
        taskDate == NewDate(task.date)
    IN
    IF period = "daily" THEN task.date = refDate
    ELSE IF period = "weekly"
    THEN LET r == getWeekRange(refDate, tz) IN
         StrLE(r.start, task.date) /\ StrLE(task.date, r.end)
    ELSE IF period = "monthly"
    THEN /\ getMonth(taskDate, tz) = getMonth(targetDate, tz)
         /\ getFullYear(taskDate, tz) = getFullYear(targetDate, tz)
    ELSE IF period = "yearly"
    THEN getFullYear(taskDate, tz) = getFullYear(targetDate, tz)
    ELSE TRUE

filterTasks(ts, period, refDate, tz) ==
    IF period = "all" THEN ts
    ELSE SelectSeqBy(ts, {t \in Range(ts) : InPeriod(t, period, refDate, tz)})

FilterPeriods == {"daily", "weekly", "monthly", "yearly", "all"}

\* useMemo(() => filterTasks(tasks, filterPeriod, currentDate), ...)
filteredTasks == filterTasks(tasks, filterPeriod, currentDate, timeZone)

\* enum TaskStatus
TaskStatus ==
    [PENDING |-> "Pending", IN_PROGRESS |-> "In Progress", COMPLETED |-> "Completed",
     INSPECTED |-> "Inspected"]

\* stats with completed counting only the Completed tasks
stats_CompletedOnly(ft) ==
    [total |-> Len(ft),
     completed |-> Len(SelectSeq(ft, LAMBDA t : t.status = TaskStatus.COMPLETED)),
     pending |-> Len(SelectSeq(ft, LAMBDA t : t.status = TaskStatus.PENDING)),
     inProgress |-> Len(SelectSeq(ft, LAMBDA t : t.status = TaskStatus.IN_PROGRESS))]

\* const stats = useMemo(...)
stats(ft) ==
    [total |-> Len(ft),
     completed |-> Len(SelectSeq(ft, LAMBDA t : \/ t.status = TaskStatus.COMPLETED
                                                \/ t.status = TaskStatus.INSPECTED)),
     pending |-> Len(SelectSeq(ft, LAMBDA t : t.status = TaskStatus.PENDING)),
     inProgress |-> Len(SelectSeq(ft, LAMBDA t : t.status = TaskStatus.IN_PROGRESS))]

\* const chartData = useMemo(...)
chartData(ft, areas) ==
    LET data == [i \in DOMAIN areas |->
                    [name |-> areas[i].name,
                     tasks |-> Len(SelectSeq(ft, LAMBDA t : t.area = areas[i].name))]] IN
    SelectSeq(data, LAMBDA d : d.tasks > 0)

-----------------------------------------------------------------------------
(* JSON and the cache slots *)

\* JSON.stringify of one object: properties whose value is undefined are left out
JSONstringifyObject(r) == [f \in {g \in DOMAIN r : r[g] # Undefined} |-> r[f]]

\* JSON.stringify of an array of objects, as the content of a slot
JSONstringify(coll) ==
    [kind |-> "json", text |-> [i \in DOMAIN coll |-> JSONstringifyObject(coll[i])]]

\* JSON.parse of a slot content written by JSON.stringify
JSONparse(stored) == stored.text

Absent == [kind |-> "absent", text |-> <<>>]    \* getItem returns null
Corrupt == [kind |-> "corrupt", text |-> <<>>]  \* a string JSON.parse rejects

Slots == [k \in {TASKS_KEY, AREAS_KEY} |-> Absent]

-----------------------------------------------------------------------------
(* The remote tables (schema in supabaseClient.ts) and the wire format *)

TaskColumns ==
    {"id", "date", "area", "category", "job_description", "assignee", "status",
     "remarks", "photo_before", "photo_progress", "photo_after", "created_at"}

AreaColumns == {"name", "category", "created_at"}

\* a row of table tasks whose nullable columns were never set
TaskRow(id, area, category, jd) ==
    [id |-> id, date |-> Today, area |-> area, category |-> category,
     job_description |-> jd, assignee |-> "Siti", status |-> "Pending",
     remarks |-> Null, photo_before |-> Null, photo_progress |-> Null,
     photo_after |-> Null, created_at |-> CreatedAt]

AreaRow(name, category) ==
    [name |-> name, category |-> category, created_at |-> CreatedAt]

\* the object upsertTask hands to supabase.from('tasks').upsert(...), as sent
WireTask(task) ==
    JSONstringifyObject(
        [id |-> Get(task, "id"), date |-> Get(task, "date"),
         area |-> Get(task, "area"), category |-> Get(task, "category"),
         job_description |-> Get(task, "jobDescription"),
         assignee |-> Get(task, "assignee"), status |-> Get(task, "status"),
         remarks |-> Get(task, "remarks"),
         photo_before |-> Get(task, "photoBefore"),
         photo_progress |-> Get(task, "photoProgress"),
         photo_after |-> Get(task, "photoAfter")])

\* the object upsertArea hands to supabase.from('areas').upsert(...), as sent
WireArea(area) ==
    JSONstringifyObject([name |-> Get(area, "name"), category |-> Get(area, "category")])

\* MapRow reading the in-memory field names off the row
MapRow_SameNames(t) ==
    [id |-> Get(t, "id"), date |-> Get(t, "date"), area |-> Get(t, "area"),
     category |-> Get(t, "category"), jobDescription |-> Get(t, "jobDescription"),
     assignee |-> Get(t, "assignee"), status |-> Get(t, "status"),
     remarks |-> Get(t, "remarks"), photoBefore |-> Get(t, "photoBefore"),
     photoProgress |-> Get(t, "photoProgress"), photoAfter |-> Get(t, "photoAfter")]

\* the object of a fetched row, as fetchTasks maps it
MapRow(t) ==
    [id |-> Get(t, "id"), date |-> Get(t, "date"), area |-> Get(t, "area"),
     category |-> Get(t, "category"), jobDescription |-> Get(t, "job_description"),
     assignee |-> Get(t, "assignee"), status |-> Get(t, "status"),
     remarks |-> Get(t, "remarks"), photoBefore |-> Get(t, "photo_before"),
     photoProgress |-> Get(t, "photo_progress"), photoAfter |-> Get(t, "photo_after")]

\* INSERT ... ON CONFLICT (pk) DO UPDATE: the columns sent replace the row's,
\* a new row takes the column defaults for the columns not sent
RemoteUpsert(rows, payload, pk, columns) ==
    IF \E i \in DOMAIN rows : rows[i][pk] = payload[pk]
    THEN [i \in DOMAIN rows |->
            IF rows[i][pk] = payload[pk]
            THEN [f \in DOMAIN rows[i] |->
                    IF f \in DOMAIN payload THEN payload[f] ELSE rows[i][f]]
            ELSE rows[i]]
    ELSE Append(rows, [f \in columns |->
                        IF f \in DOMAIN payload THEN payload[f]
                        ELSE IF f = "created_at" THEN CreatedAt ELSE Null])

\* DELETE ... WHERE pk = key
RemoteDelete(rows, key, pk) ==
    SelectSeqBy(rows, {r \in Range(rows) : r[pk] # key})

\* the ways one remote call can end: a success response, an error response
\* ({ error } is set), or a rejected promise
Outcomes == {"ok", "error", "throw"}

\* the { data, error } a list call resolves to
ListResponse(outcome, rows) ==
    [kind |-> outcome, data |-> IF outcome = "ok" THEN rows ELSE <<>>]

-----------------------------------------------------------------------------
(* storageService.fetchTasks / fetchAreas *)

Returned(v, ls) == [raised |-> FALSE, val |-> v, ls |-> ls]
Thrown(ls) == [raised |-> TRUE, val |-> <<>>, ls |-> ls]

\* const stored = localStorage.getItem(key);
\* return stored ? JSON.parse(stored) : seed;
LocalFallback(ls, key, seed) ==
    LET stored == ls[key] IN
    IF stored.kind = "absent" THEN Returned(seed, ls)
    ELSE IF stored.kind = "corrupt" THEN Thrown(ls)
    ELSE Returned(JSONparse(stored), ls)

\* fetchTasksTry without the localStorage.setItem
fetchTasksTry_NoCacheWrite(resp, ls) ==
    IF resp.kind # "ok" THEN Thrown(ls)
    ELSE IF Len(resp.data) > 0
    THEN Returned([i \in DOMAIN resp.data |-> MapRow(resp.data[i])], ls)
    ELSE LocalFallback(ls, TASKS_KEY, INITIAL_TASKS)

\* fetchTasksTry keeping the cached records the remote does not hold
fetchTasksTry_KeepsCached(resp, ls) ==
    IF resp.kind # "ok" THEN Thrown(ls)
    ELSE IF Len(resp.data) > 0
    THEN LET mapped == [i \in DOMAIN resp.data |-> MapRow(resp.data[i])]
             cached == IF ls[TASKS_KEY].kind = "json" THEN JSONparse(ls[TASKS_KEY]) ELSE <<>>
             merged == SelectSeqBy(cached, {c \in Range(cached) :
                                      \A i \in DOMAIN mapped : mapped[i].id # c.id}) \o mapped IN
         Returned(merged, [ls EXCEPT ![TASKS_KEY] = JSONstringify(merged)])
    ELSE LocalFallback(ls, TASKS_KEY, INITIAL_TASKS)

\* the try block of fetchTasks
fetchTasksTry(resp, ls) ==
    IF resp.kind # "ok" THEN Thrown(ls)
    ELSE IF Len(resp.data) > 0
    THEN LET mapped == [i \in DOMAIN resp.data |-> MapRow(resp.data[i])] IN
         Returned(mapped, [ls EXCEPT ![TASKS_KEY] = JSONstringify(mapped)])
    ELSE LocalFallback(ls, TASKS_KEY, INITIAL_TASKS)

\* fetchTasksCatch answering with the seed whatever the slot holds
fetchTasksCatch_IgnoresCache(ls) == Returned(INITIAL_TASKS, ls)

\* the catch block of fetchTasks
fetchTasksCatch(ls) == LocalFallback(ls, TASKS_KEY, INITIAL_TASKS)

fetchTasks(resp, ls) ==
    LET t == fetchTasksTry(resp, ls) IN
    IF t.raised THEN fetchTasksCatch(t.ls) ELSE t

\* the try block of fetchAreas
fetchAreasTry(resp, ls) ==
    IF resp.kind # "ok" THEN Thrown(ls)
    ELSE IF Len(resp.data) > 0
    THEN Returned(resp.data, [ls EXCEPT ![AREAS_KEY] = JSONstringify(resp.data)])
    ELSE LocalFallback(ls, AREAS_KEY, INITIAL_AREAS)

\* the catch block of fetchAreas
fetchAreasCatch(ls) == LocalFallback(ls, AREAS_KEY, INITIAL_AREAS)

fetchAreas(resp, ls) ==
    LET t == fetchAreasTry(resp, ls) IN
    IF t.raised THEN fetchAreasCatch(t.ls) ELSE t

-----------------------------------------------------------------------------
(* Inputs: what the stores hold when the page is first opened, and what the *)
(* user types                                                              *)

ProvisionedTasks == << TaskRow("r1", "Lobby", "Indoor", "Mop Floor") >>

ProvisionedAreas == << AreaRow("Lobby", "Indoor"), AreaRow("Gym", "Facilities") >>

RemoteTasksInit ==
    { <<>>, ProvisionedTasks,
      << TaskRow("r1", "Lobby", "Indoor", "Mop Floor"),
         TaskRow("r2", "Gym", "Facilities", "Wipe Mirrors") >> }

RemoteAreasInit == { <<>>, ProvisionedAreas }

\* a slot is absent on first use, holds what an earlier session stringified,
\* or holds a string written under the same key that JSON.parse rejects
CachedTasksInit ==
    { Absent, Corrupt, JSONstringify(<<>>),
      JSONstringify(<< MkTask("c1", "Lobby", "Indoor", "Dust Shelves", "Pending", "") >>) }

CachedAreasInit ==
    { Absent, Corrupt, JSONstringify(<<>>),
      JSONstringify(<< MkArea("Lobby", "Indoor"), MkArea("Pool Area", "Outdoor") >>) }

JobDescriptions == {"Mop Floor", "Polish Brass"}

\* what the user types into the AreaManager inputs
AreaInputs ==
    { MkArea("Main Lobby", "Public"), MkArea("Lobby", "Public") }

\* the areas the user picks in the form's dropdown and the rows of the
\* AreaManager list the user presses edit or delete on
TouchedAreas == {"Lobby", "Main Lobby"}

\* crypto.randomUUID(): the n-th id handed out
UUIDs == <<"u1", "u2", "u3", "u4">>

Apps == {"cloud", "mobile"}

-----------------------------------------------------------------------------
(* Observation records *)

Ev(act, outcome, raised, val, key, n) ==
    [act |-> act, outcome |-> outcome, raised |-> raised, val |-> val,
     key |-> key, n |-> n, again |-> FALSE]

Pending == [st |-> "pending", val |-> <<>>]

\* a handler invocation suspended at an await
Suspended(op, pc, task, name, area, snap, sent) ==
    [op |-> op, pc |-> pc, task |-> task, name |-> name, area |-> area,
     snap |-> snap, sent |-> sent]

RemoveAt(s, i) == [j \in 1..(Len(s) - 1) |-> IF j < i THEN s[j] ELSE s[j + 1]]

\* { ...r, f: v }
Put(r, f, v) == [g \in DOMAIN r \cup {f} |-> IF g = f THEN v ELSE r[g]]

Names(areas) == {areas[i].name : i \in DOMAIN areas}

-----------------------------------------------------------------------------
(* App: mount and initial load *)

\* the component state of a freshly mounted App, before initData has run
Mounted ==
    /\ app \in Apps
    /\ tasks = <<>>
    /\ availableAreas = <<>>
    /\ isLoading = TRUE
    /\ editingTask = <<>>
    /\ isFormOpen = FALSE
    /\ filterPeriod = "daily"
    /\ currentDate = Today
    /\ fetchedTasks = Pending
    /\ fetchedAreas = Pending
    /\ inflight = <<>>
    /\ nextId = 0
    /\ restarts = 0
    /\ ops = 0
    /\ last = Ev("mount", "", FALSE, <<>>, "", 0)
    /\ prevUpsert = <<>>

\* first use: nothing cached yet and the remote tables not yet filled
Init ==
    /\ Mounted
    /\ timeZone = 0
    /\ localStorage = Slots
    /\ remoteTasks = <<>>
    /\ remoteAreas = <<>>

\* a later start: the slots hold whatever earlier sessions left there
InitLoad ==
    /\ Mounted
    /\ timeZone = 0
    /\ \E ct \in CachedTasksInit, ca \in CachedAreasInit :
          localStorage = [k \in {TASKS_KEY, AREAS_KEY} |-> IF k = TASKS_KEY THEN ct ELSE ca]
    /\ remoteTasks \in RemoteTasksInit
    /\ remoteAreas \in RemoteAreasInit

\* the cache-sync effects of the cloud App: each runs after a render in which
\* its collection (or isLoading) changed, and writes only when loading is over
\* the cache-sync effects without their if (!isLoading)
SyncEffects_WhileLoading(a, ls, loading, ts, tsSet, as, asSet) ==
    IF a = "cloud"
    THEN [k \in DOMAIN ls |->
            IF k = TASKS_KEY /\ tsSet THEN JSONstringify(ts)
            ELSE IF k = AREAS_KEY /\ asSet THEN JSONstringify(as)
            ELSE ls[k]]
    ELSE ls

SyncEffects(a, ls, loading, ts, tsSet, as, asSet) ==
    IF a = "cloud" /\ ~loading
    THEN [k \in DOMAIN ls |->
            IF k = TASKS_KEY /\ tsSet THEN JSONstringify(ts)
            ELSE IF k = AREAS_KEY /\ asSet THEN JSONstringify(as)
            ELSE ls[k]]
    ELSE ls

\* storageService.fetchTasks() settles
FetchTasksReturns ==
    /\ isLoading
    /\ fetchedTasks.st = "pending"
    /\ \E outcome \in Outcomes :
          LET r == fetchTasks(ListResponse(outcome, remoteTasks), localStorage) IN
          /\ localStorage' = r.ls
          /\ fetchedTasks' = [st |-> IF r.raised THEN "raised" ELSE "ok", val |-> r.val]
          /\ last' = Ev("fetchTasks",
                        IF outcome = "ok" /\ remoteTasks = <<>> THEN "empty" ELSE outcome,
                        r.raised, r.val, TASKS_KEY, 1)
    /\ UNCHANGED <<view, ops, app, tasks, availableAreas, isLoading, editingTask, isFormOpen,
                   remoteTasks, remoteAreas, fetchedAreas, inflight, nextId,
                   restarts, prevUpsert>>

\* storageService.fetchAreas() settles
FetchAreasReturns ==
    /\ isLoading
    /\ fetchedAreas.st = "pending"
    /\ \E outcome \in Outcomes :
          LET r == fetchAreas(ListResponse(outcome, remoteAreas), localStorage) IN
          /\ localStorage' = r.ls
          /\ fetchedAreas' = [st |-> IF r.raised THEN "raised" ELSE "ok", val |-> r.val]
          /\ last' = Ev("fetchAreas",
                        IF outcome = "ok" /\ remoteAreas = <<>> THEN "empty" ELSE outcome,
                        r.raised, r.val, AREAS_KEY, 1)
    /\ UNCHANGED <<view, ops, app, tasks, availableAreas, isLoading, editingTask, isFormOpen,
                   remoteTasks, remoteAreas, fetchedTasks, inflight, nextId,
                   restarts, prevUpsert>>

\* initData after await Promise.all([...]): both promises fulfilled
InitDataResumes ==
    /\ isLoading
    /\ fetchedTasks.st = "ok"
    /\ fetchedAreas.st = "ok"
    /\ tasks' = fetchedTasks.val
    /\ availableAreas' = fetchedAreas.val
    /\ isLoading' = FALSE
    /\ localStorage' = SyncEffects(app, localStorage, FALSE, tasks', TRUE,
                                   availableAreas', TRUE)
    /\ fetchedTasks' = [st |-> "done", val |-> <<>>]
    /\ fetchedAreas' = [st |-> "done", val |-> <<>>]
    /\ last' = Ev("initData", "", FALSE, <<>>, "", 0)
    /\ prevUpsert' = <<>>
    /\ UNCHANGED <<view, ops, app, editingTask, isFormOpen, remoteTasks, remoteAreas,
                   inflight, nextId, restarts>>

-----------------------------------------------------------------------------
(* TaskForm *)

\* the effect on [initialData, isOpen, availableAreas]: the form's fields
formDataOf(initialData, areas) ==
    IF initialData # <<>> THEN initialData[1]
    ELSE [date |-> Today,
          area |-> IF Len(areas) > 0 THEN areas[1].name ELSE "",
          category |-> IF Len(areas) > 0 THEN areas[1].category ELSE "",
          jobDescription |-> "", assignee |-> "", status |-> "Pending",
          remarks |-> "", photoBefore |-> "", photoProgress |-> "", photoAfter |-> ""]

\* availableAreas.find(a => a.name === name)?.category, or dflt when not found
CategoryOf(areas, name, dflt) ==
    IF \E i \in DOMAIN areas : areas[i].name = name
    THEN areas[CHOOSE i \in DOMAIN areas :
                  /\ areas[i].name = name
                  /\ \A j \in DOMAIN areas : areas[j].name = name => i <= j].category
    ELSE dflt

handleAreaChange(formData, areas, selected) ==
    Put(Put(formData, "area", selected), "category", CategoryOf(areas, selected, ""))

\* the guard of handleSubmit
CanSubmit(formData) ==
    /\ ~Falsy(Get(formData, "area"))
    /\ ~Falsy(Get(formData, "jobDescription"))
    /\ ~Falsy(Get(formData, "assignee"))

\* the object handleSubmit passes to onSave
handleSubmit(formData, areas, uuid) ==
    [id |-> IF Falsy(Get(formData, "id")) THEN uuid ELSE formData.id,
     date |-> Get(formData, "date"),
     area |-> Get(formData, "area"),
     category |-> IF Falsy(Get(formData, "category"))
                  THEN CategoryOf(areas, Get(formData, "area"), "General")
                  ELSE formData.category,
     jobDescription |-> Get(formData, "jobDescription"),
     assignee |-> Get(formData, "assignee"),
     status |-> IF Falsy(Get(formData, "status")) THEN "Pending" ELSE formData.status,
     remarks |-> IF Falsy(Get(formData, "remarks")) THEN "" ELSE formData.remarks,
     photoBefore |-> Get(formData, "photoBefore"),
     photoProgress |-> Get(formData, "photoProgress"),
     photoAfter |-> Get(formData, "photoAfter")]

-----------------------------------------------------------------------------
(* App: the synchronous part of the handlers *)

\* handleAddTask that prepends the record also after replacing it in place
handleAddTask_PrependsReplaced(ts, editing, newTask) ==
    <<newTask>> \o (IF editing # <<>>
                    THEN [i \in DOMAIN ts |-> IF ts[i].id = newTask.id THEN newTask ELSE ts[i]]
                    ELSE ts)

\* handleAddTask that prepends also when a task is being edited
handleAddTask_AlwaysPrepends(ts, editing, newTask) == <<newTask>> \o ts

\* handleAddTask up to the await: the argument of setTasks
handleAddTask(ts, editing, newTask) ==
    IF editing # <<>>
    THEN [i \in DOMAIN ts |-> IF ts[i].id = newTask.id THEN newTask ELSE ts[i]]
    ELSE <<newTask>> \o ts

\* handleDelete with the predicate of the filter inverted
handleDelete_Inverted(ts, id) == SelectSeqBy(ts, {t \in Range(ts) : t.id = id})

\* handleDelete up to the await: tasks.filter(t => t.id !== id)
handleDelete(ts, id) == SelectSeqBy(ts, {t \in Range(ts) : t.id # id})

\* handleAddArea without its guard
AddAreaAccepted_NoGuard(a, areas, area) == TRUE

\* the duplicate-name guard of handleAddArea; the mobile onAdd has none
AddAreaAccepted(a, areas, area) ==
    a = "mobile" \/ ~(\E i \in DOMAIN areas : areas[i].name = area.name)

\* handleAddArea up to the await: [...availableAreas, area]
handleAddArea(areas, area) == Append(areas, area)

\* handleDeleteArea up to the await: availableAreas.filter(a => a.name !== name)
handleDeleteArea(areas, name) == SelectSeqBy(areas, {x \in Range(areas) : x.name # name})

\* the duplicate-name guard of handleEditArea; the mobile onEdit has none
EditAreaAccepted(a, areas, oldName, newArea) ==
    a = "mobile" \/ ~(oldName # newArea.name /\ \E i \in DOMAIN areas : areas[i].name = newArea.name)

\* handleEditArea up to the first await: availableAreas.map(...)
handleEditArea(areas, oldName, newArea) ==
    [i \in DOMAIN areas |-> IF areas[i].name = oldName THEN newArea ELSE areas[i]]

\* the cascade of handleEditArea: tasks.map(t => t.area === oldName ? {...} : t)
CascadeRename(ts, oldName, newArea) ==
    [i \in DOMAIN ts |->
        IF ts[i].area = oldName
        THEN Put(Put(ts[i], "area", newArea.name), "category", newArea.category)
        ELSE ts[i]]

\* the task collection handleEditArea sets after its awaits; the mobile onEdit
\* sets none
EditAreaCascades(a) == a = "cloud"

Idle == ~isLoading /\ ~isFormOpen

\* the "new task" button
OpenNewTask ==
    /\ Idle
    /\ editingTask' = <<>>
    /\ isFormOpen' = TRUE
    /\ last' = Ev("openNew", "", FALSE, <<>>, "", 0)
    /\ UNCHANGED <<view, ops, app, tasks, availableAreas, isLoading, localStorage, remoteTasks,
                   remoteAreas, fetchedTasks, fetchedAreas, inflight, nextId,
                   restarts, prevUpsert>>

\* the edit button of a listed task
OpenEditTask ==
    /\ Idle
    /\ \E i \in DOMAIN tasks :
          /\ editingTask' = <<tasks[i]>>
          /\ last' = Ev("openEdit", "", FALSE, <<>>, tasks[i].id, 0)
    /\ isFormOpen' = TRUE
    /\ UNCHANGED <<view, ops, app, tasks, availableAreas, isLoading, localStorage, remoteTasks,
                   remoteAreas, fetchedTasks, fetchedAreas, inflight, nextId,
                   restarts, prevUpsert>>

\* the cancel / close button of the form
CloseForm ==
    /\ ~isLoading /\ isFormOpen
    /\ isFormOpen' = FALSE
    /\ last' = Ev("closeForm", "", FALSE, <<>>, "", 0)
    /\ UNCHANGED <<view, ops, app, tasks, availableAreas, isLoading, editingTask, localStorage,
                   remoteTasks, remoteAreas, fetchedTasks, fetchedAreas, inflight,
                   nextId, restarts, prevUpsert>>

\* the form is submitted: handleSubmit builds the record, onSave = handleAddTask
\* runs up to its await on storageService.upsertTask, then onClose
SubmitTask ==
    /\ ~isLoading /\ isFormOpen
    /\ Len(inflight) < MaxInFlight
    /\ ops < MaxOps
    /\ ops' = ops + 1
    /\ editingTask = <<>> => (nextId < MaxNewIds /\ Len(tasks) < MaxTasks)
    /\ \E sel \in (Names(availableAreas) \cap TouchedAreas) \cup {"(keep)"}, jd \in (IF editingTask = <<>> THEN {"Mop Floor"} ELSE JobDescriptions) :
          LET f0 == formDataOf(editingTask, availableAreas)
              f1 == IF sel = "(keep)" THEN f0 ELSE handleAreaChange(f0, availableAreas, sel)
              f2 == Put(Put(f1, "jobDescription", jd), "assignee", "Budi")
              newTask == handleSubmit(f2, availableAreas, UUIDs[nextId + 1])
          IN
          /\ CanSubmit(f2)
          /\ tasks' = handleAddTask(tasks, editingTask, newTask)
          /\ inflight' = Append(inflight,
                 Suspended("handleAddTask", "upsertTask", <<newTask>>, "", <<>>, <<>>, 1))
          /\ last' = [Ev("handleAddTask", IF editingTask # <<>> THEN "edit" ELSE "new",
                           FALSE, <<newTask>>, newTask.id, 1)
                           EXCEPT !.again = (prevUpsert = <<newTask>>)]
          /\ prevUpsert' = <<newTask>>
    /\ nextId' = IF editingTask = <<>> THEN nextId + 1 ELSE nextId
    /\ isFormOpen' = FALSE
    /\ localStorage' = SyncEffects(app, localStorage, isLoading, tasks', TRUE,
                                   availableAreas, FALSE)
    /\ UNCHANGED <<view, app, availableAreas, isLoading, editingTask, remoteTasks,
                   remoteAreas, fetchedTasks, fetchedAreas, restarts>>

\* the delete button of a listed task; confirm() may be answered with cancel
HandleDelete ==
    /\ Idle
    /\ Len(inflight) < MaxInFlight
    /\ ops < MaxOps
    /\ ops' = ops + 1
    /\ \E i \in DOMAIN tasks, confirmed \in BOOLEAN :
          LET id == tasks[i].id IN
          IF confirmed
          THEN /\ tasks' = handleDelete(tasks, id)
               /\ inflight' = Append(inflight,
                      Suspended("handleDelete", "deleteTask", <<>>, id, <<>>, <<>>, 1))
               /\ last' = Ev("handleDelete", "confirmed", FALSE, <<>>, id, 1)
               /\ prevUpsert' = <<>>
               /\ localStorage' = SyncEffects(app, localStorage, isLoading, tasks', TRUE,
                                              availableAreas, FALSE)
          ELSE /\ last' = Ev("handleDelete", "cancelled", FALSE, <<>>, id, 0)
               /\ UNCHANGED <<tasks, inflight, prevUpsert, localStorage>>
    /\ UNCHANGED <<view, app, availableAreas, isLoading, editingTask, isFormOpen, remoteTasks,
                   remoteAreas, fetchedTasks, fetchedAreas, nextId, restarts>>

\* AreaManager "add": handleAddArea (cloud) or the inline onAdd (mobile), up to
\* the await on storageService.upsertArea
HandleAddArea ==
    /\ Idle
    /\ Len(inflight) < MaxInFlight
    /\ ops < MaxOps
    /\ ops' = ops + 1
    /\ Len(availableAreas) < MaxAreas
    /\ \E area \in AreaInputs :
          IF AddAreaAccepted(app, availableAreas, area)
          THEN /\ availableAreas' = handleAddArea(availableAreas, area)
               /\ inflight' = Append(inflight,
                      Suspended("handleAddArea", "upsertArea", <<>>, area.name, <<area>>, <<>>, 1))
               /\ last' = Ev("handleAddArea", "accepted", FALSE, <<area>>, area.name, 1)
               /\ localStorage' = SyncEffects(app, localStorage, isLoading, tasks, FALSE,
                                              availableAreas', TRUE)
          ELSE /\ last' = Ev("handleAddArea", "rejected", FALSE, <<area>>, area.name, 0)
               /\ UNCHANGED <<availableAreas, inflight, localStorage>>
    /\ UNCHANGED <<view, app, tasks, isLoading, editingTask, isFormOpen, remoteTasks,
                   remoteAreas, fetchedTasks, fetchedAreas, nextId, restarts, prevUpsert>>

\* handleDeleteArea that also removes the tasks of the area
HandleDeleteArea_CascadesTasks ==
    /\ Idle
    /\ Len(inflight) < MaxInFlight
    /\ ops < MaxOps
    /\ ops' = ops + 1
    /\ \E name \in Names(availableAreas) \cap TouchedAreas, confirmed \in BOOLEAN :
          IF confirmed \/ app = "mobile"
          THEN /\ availableAreas' = handleDeleteArea(availableAreas, name)
               /\ tasks' = SelectSeqBy(tasks, {t \in Range(tasks) : t.area # name})
               /\ inflight' = Append(inflight,
                      Suspended("handleDeleteArea", "deleteArea", <<>>, name, <<>>, <<>>, 1))
               /\ last' = Ev("handleDeleteArea", "confirmed", FALSE, <<>>, name, 1)
               /\ localStorage' = SyncEffects(app, localStorage, isLoading, tasks, FALSE,
                                              availableAreas', TRUE)
          ELSE /\ last' = Ev("handleDeleteArea", "cancelled", FALSE, <<>>, name, 0)
               /\ UNCHANGED <<tasks, availableAreas, inflight, localStorage>>
    /\ UNCHANGED <<view, app, isLoading, editingTask, isFormOpen, remoteTasks,
                   remoteAreas, fetchedTasks, fetchedAreas, nextId, restarts, prevUpsert>>

\* AreaManager "delete": handleDeleteArea (cloud, behind confirm()) or the
\* inline onDelete (mobile), up to the await on storageService.deleteArea
HandleDeleteArea ==
    /\ Idle
    /\ Len(inflight) < MaxInFlight
    /\ ops < MaxOps
    /\ ops' = ops + 1
    /\ \E name \in Names(availableAreas) \cap TouchedAreas, confirmed \in BOOLEAN :
          IF confirmed \/ app = "mobile"
          THEN /\ availableAreas' = handleDeleteArea(availableAreas, name)
               /\ inflight' = Append(inflight,
                      Suspended("handleDeleteArea", "deleteArea", <<>>, name, <<>>, <<>>, 1))
               /\ last' = Ev("handleDeleteArea", "confirmed", FALSE, <<>>, name, 1)
               /\ localStorage' = SyncEffects(app, localStorage, isLoading, tasks, FALSE,
                                              availableAreas', TRUE)
          ELSE /\ last' = Ev("handleDeleteArea", "cancelled", FALSE, <<>>, name, 0)
               /\ UNCHANGED <<availableAreas, inflight, localStorage>>
    /\ UNCHANGED <<view, app, tasks, isLoading, editingTask, isFormOpen, remoteTasks,
                   remoteAreas, fetchedTasks, fetchedAreas, nextId, restarts, prevUpsert>>

\* AreaManager "save edit": handleEditArea (cloud) or the inline onEdit
\* (mobile), up to the first await; the invocation keeps the tasks of the
\* render it was created in
HandleEditArea ==
    /\ Idle
    /\ Len(inflight) < MaxInFlight
    /\ ops < MaxOps
    /\ ops' = ops + 1
    /\ \E oldName \in Names(availableAreas) \cap TouchedAreas, newArea \in AreaInputs :
          IF EditAreaAccepted(app, availableAreas, oldName, newArea)
          THEN /\ availableAreas' = handleEditArea(availableAreas, oldName, newArea)
               /\ inflight' = Append(inflight,
                      Suspended("handleEditArea", "deleteArea", <<>>, oldName, <<newArea>>,
                                IF EditAreaCascades(app) THEN tasks ELSE <<>>, 1))
               /\ last' = Ev("handleEditArea", "accepted", FALSE, <<newArea>>, oldName, 1)
               /\ localStorage' = SyncEffects(app, localStorage, isLoading, tasks, FALSE,
                                              availableAreas', TRUE)
          ELSE /\ last' = Ev("handleEditArea", "rejected", FALSE, <<newArea>>, oldName, 0)
               /\ UNCHANGED <<availableAreas, inflight, localStorage>>
    /\ UNCHANGED <<view, app, tasks, isLoading, editingTask, isFormOpen, remoteTasks,
                   remoteAreas, fetchedTasks, fetchedAreas, nextId, restarts, prevUpsert>>

-----------------------------------------------------------------------------
(* storageService: the mutating calls.  Each returns whether it raised to   *)
(* its caller and the rows of the table after the call.                    *)

\* upsertTask without its catch block
upsertTask_Rethrows(rows, task, outcome) ==
    [raised |-> outcome # "ok",
     rows |-> IF outcome = "ok" THEN RemoteUpsert(rows, WireTask(task), "id", TaskColumns)
              ELSE rows]

\* try { const { error } = await ...upsert(...); if (error) throw error }
\* catch (e) { console.error(...) }
upsertTask(rows, task, outcome) ==
    [raised |-> FALSE,
     rows |-> IF outcome = "ok" THEN RemoteUpsert(rows, WireTask(task), "id", TaskColumns)
              ELSE rows]

deleteTask(rows, id, outcome) ==
    [raised |-> FALSE,
     rows |-> IF outcome = "ok" THEN RemoteDelete(rows, id, "id") ELSE rows]

\* upsertArea without its try / catch
upsertArea_Rethrows(rows, area, outcome) ==
    [raised |-> outcome = "throw",
     rows |-> IF outcome = "ok" THEN RemoteUpsert(rows, WireArea(area), "name", AreaColumns)
              ELSE rows]

\* try { await ...upsert(...) } catch (e) { console.error(...) }
upsertArea(rows, area, outcome) ==
    [raised |-> FALSE,
     rows |-> IF outcome = "ok" THEN RemoteUpsert(rows, WireArea(area), "name", AreaColumns)
              ELSE rows]

\* deleteArea without its try / catch
deleteArea_Rethrows(rows, name, outcome) ==
    [raised |-> outcome = "throw",
     rows |-> IF outcome = "ok" THEN RemoteDelete(rows, name, "name") ELSE rows]

deleteArea(rows, name, outcome) ==
    [raised |-> FALSE,
     rows |-> IF outcome = "ok" THEN RemoteDelete(rows, name, "name") ELSE rows]

-----------------------------------------------------------------------------
(* App: the handlers resume when their remote call has settled *)

\* handleAddTask after await storageService.upsertTask: setEditingTask(undefined)
UpsertTaskReturns ==
    \E i \in DOMAIN inflight, outcome \in Outcomes :
       LET p == inflight[i]
           r == upsertTask(remoteTasks, p.task[1], outcome) IN
       /\ p.op = "handleAddTask"
       /\ remoteTasks' = r.rows
       /\ editingTask' = IF r.raised THEN editingTask ELSE <<>>
       /\ inflight' = RemoveAt(inflight, i)
       /\ last' = Ev("handleAddTask.done", outcome, r.raised, p.task, p.task[1].id, p.sent)
       /\ UNCHANGED <<view, ops, app, tasks, availableAreas, isLoading, isFormOpen, localStorage,
                      remoteAreas, fetchedTasks, fetchedAreas, nextId, restarts, prevUpsert>>

\* handleDelete after await storageService.deleteTask
DeleteTaskReturns ==
    \E i \in DOMAIN inflight, outcome \in Outcomes :
       LET p == inflight[i]
           r == deleteTask(remoteTasks, p.name, outcome) IN
       /\ p.op = "handleDelete"
       /\ remoteTasks' = r.rows
       /\ inflight' = RemoveAt(inflight, i)
       /\ last' = Ev("handleDelete.done", outcome, r.raised, <<>>, p.name, p.sent)
       /\ UNCHANGED <<view, ops, app, tasks, availableAreas, isLoading, editingTask, isFormOpen,
                      localStorage, remoteAreas, fetchedTasks, fetchedAreas, nextId,
                      restarts, prevUpsert>>

\* handleAddArea / onAdd after await storageService.upsertArea
UpsertAreaReturns ==
    \E i \in DOMAIN inflight, outcome \in Outcomes :
       LET p == inflight[i]
           r == upsertArea(remoteAreas, p.area[1], outcome) IN
       /\ p.op = "handleAddArea"
       /\ remoteAreas' = r.rows
       /\ inflight' = RemoveAt(inflight, i)
       /\ last' = Ev("handleAddArea.done", outcome, r.raised, p.area, p.name, p.sent)
       /\ UNCHANGED <<view, ops, app, tasks, availableAreas, isLoading, editingTask, isFormOpen,
                      localStorage, remoteTasks, fetchedTasks, fetchedAreas, nextId,
                      restarts, prevUpsert>>

\* handleDeleteArea / onDelete after await storageService.deleteArea
DeleteAreaReturns ==
    \E i \in DOMAIN inflight, outcome \in Outcomes :
       LET p == inflight[i]
           r == deleteArea(remoteAreas, p.name, outcome) IN
       /\ p.op = "handleDeleteArea"
       /\ remoteAreas' = r.rows
       /\ inflight' = RemoveAt(inflight, i)
       /\ last' = Ev("handleDeleteArea.done", outcome, r.raised, <<>>, p.name, p.sent)
       /\ UNCHANGED <<view, ops, app, tasks, availableAreas, isLoading, editingTask, isFormOpen,
                      localStorage, remoteTasks, fetchedTasks, fetchedAreas, nextId,
                      restarts, prevUpsert>>

\* handleEditArea / onEdit after await storageService.deleteArea(oldName):
\* storageService.upsertArea(newArea) is called
EditAreaDeleteReturns ==
    \E i \in DOMAIN inflight, outcome \in Outcomes :
       LET p == inflight[i]
           r == deleteArea(remoteAreas, p.name, outcome) IN
       /\ p.op = "handleEditArea" /\ p.pc = "deleteArea"
       /\ remoteAreas' = r.rows
       /\ inflight' = IF r.raised THEN RemoveAt(inflight, i)
                      ELSE [inflight EXCEPT ![i].pc = "upsertArea", ![i].sent = p.sent + 1]
       /\ last' = Ev("handleEditArea.deleted", outcome, r.raised, p.area, p.name, p.sent)
       /\ UNCHANGED <<view, ops, app, tasks, availableAreas, isLoading, editingTask, isFormOpen,
                      localStorage, remoteTasks, fetchedTasks, fetchedAreas, nextId,
                      restarts, prevUpsert>>

\* handleEditArea after await storageService.upsertArea(newArea): the cloud
\* App sets the tasks to the cascade over the tasks the invocation kept; the
\* mobile onEdit ends
EditAreaUpsertReturns ==
    \E i \in DOMAIN inflight, outcome \in Outcomes :
       LET p == inflight[i]
           r == upsertArea(remoteAreas, p.area[1], outcome)
           cascades == EditAreaCascades(app) /\ ~r.raised IN
       /\ p.op = "handleEditArea" /\ p.pc = "upsertArea"
       /\ remoteAreas' = r.rows
       /\ tasks' = IF cascades THEN CascadeRename(p.snap, p.name, p.area[1]) ELSE tasks
       /\ localStorage' = SyncEffects(app, localStorage, isLoading, tasks', cascades,
                                      availableAreas, FALSE)
       /\ prevUpsert' = IF cascades THEN <<>> ELSE prevUpsert
       /\ inflight' = RemoveAt(inflight, i)
       /\ last' = Ev("handleEditArea.done", outcome, r.raised, p.area, p.name, p.sent)
       /\ UNCHANGED <<view, ops, app, availableAreas, isLoading, editingTask, isFormOpen,
                      remoteTasks, fetchedTasks, fetchedAreas, nextId, restarts>>

\* the page is reloaded: the component state is gone, requests in flight are
\* dropped, localStorage and the remote tables stay
Restart ==
    /\ restarts < MaxRestarts
    /\ restarts' = restarts + 1
    /\ tasks' = <<>>
    /\ availableAreas' = <<>>
    /\ isLoading' = TRUE
    /\ editingTask' = <<>>
    /\ isFormOpen' = FALSE
    /\ fetchedTasks' = Pending
    /\ fetchedAreas' = Pending
    /\ inflight' = <<>>
    /\ last' = Ev("mount", "", FALSE, <<>>, "", 0)
    /\ prevUpsert' = <<>>
    /\ filterPeriod' = "daily"
    /\ currentDate' = Today
    /\ localStorage' = SyncEffects(app, localStorage, isLoading', tasks', TRUE,
                                   availableAreas', TRUE)
    /\ UNCHANGED <<timeZone, ops, app, remoteTasks, remoteAreas, nextId>>

Next ==
    \/ FetchTasksReturns
    \/ FetchAreasReturns
    \/ InitDataResumes
    \/ OpenNewTask
    \/ OpenEditTask
    \/ CloseForm
    \/ SubmitTask
    \/ HandleDelete
    \/ HandleAddArea
    \/ HandleDeleteArea
    \/ HandleEditArea
    \/ UpsertTaskReturns
    \/ DeleteTaskReturns
    \/ UpsertAreaReturns
    \/ DeleteAreaReturns
    \/ EditAreaDeleteReturns
    \/ EditAreaUpsertReturns
    \/ Restart

Spec == Init /\ [][Next]_vars

\* the load on its own, over every content of the slots and the tables
NextLoad ==
    \/ FetchTasksReturns
    \/ FetchAreasReturns
    \/ InitDataResumes
    \/ Restart

SpecLoad == InitLoad /\ [][NextLoad]_vars

-----------------------------------------------------------------------------
(* App: the date filter *)

\* the offsets from UTC of the clients, in hours: west of, at and east of
\* Greenwich
TimeZones == {-5, 0, 7}

\* the statuses and the areas of the dated tasks, in turn; "Annex" is the area
\* of a task whose area has been deleted
DatedStatuses == <<TaskStatus.PENDING, TaskStatus.IN_PROGRESS, TaskStatus.COMPLETED,
                   TaskStatus.INSPECTED>>

DatedAreas == <<"Lobby", "Restrooms", "Annex", "Pool Area", "Lobby", "Gym">>

\* len tasks dated on consecutive days, the first on day n
DatedTasks(n, len) ==
    [k \in 1..len |->
        Put(MkTask("d" \o ToString(k), DatedAreas[(k % Len(DatedAreas)) + 1], "Indoor",
                   "Mop Floor", DatedStatuses[(k % Len(DatedStatuses)) + 1], ""),
            "date", toISODate(24 * (n + k - 1)))]

\* the collections the filter is applied to: one task on every day of the
\* calendar, and the tasks of the days from Sunday 2024-03-10 on
DatedCollections ==
    { DatedTasks(FirstDay, MaxDays),
      DatedTasks(DaysFromCivil(2024, 3, 10), MaxSpan) }

\* the App after a load that was answered with dated tasks, in some time zone
InitDates ==
    /\ app = "cloud"
    /\ tasks \in DatedCollections
    /\ availableAreas = INITIAL_AREAS
    /\ isLoading = FALSE
    /\ editingTask = <<>>
    /\ isFormOpen = FALSE
    /\ filterPeriod = "daily"
    /\ currentDate = Today
    /\ timeZone \in TimeZones
    /\ localStorage = [k \in {TASKS_KEY, AREAS_KEY} |->
                         IF k = TASKS_KEY THEN JSONstringify(tasks)
                         ELSE JSONstringify(INITIAL_AREAS)]
    /\ remoteTasks = <<>>
    /\ remoteAreas = <<>>
    /\ fetchedTasks = [st |-> "done", val |-> <<>>]
    /\ fetchedAreas = [st |-> "done", val |-> <<>>]
    /\ inflight = <<>>
    /\ nextId = 0
    /\ restarts = 0
    /\ ops = 0
    /\ last = Ev("initData", "", FALSE, <<>>, "", 0)
    /\ prevUpsert = <<>>

\* a period button of the sidebar: 'daily' also resets the reference date
SetFilterPeriod ==
    /\ ~isLoading
    /\ \E p \in FilterPeriods :
          /\ filterPeriod' = p
          /\ currentDate' = IF p = "daily" THEN Today ELSE currentDate
    /\ UNCHANGED <<timeZone, ops, app, tasks, availableAreas, isLoading, editingTask,
                   isFormOpen, localStorage, remoteTasks, remoteAreas, fetchedTasks,
                   fetchedAreas, inflight, nextId, restarts, last, prevUpsert>>

\* the date input of the header
SetCurrentDate ==
    /\ ~isLoading
    /\ \E d \in DateStrings : currentDate' = d
    /\ UNCHANGED <<filterPeriod, timeZone, ops, app, tasks, availableAreas, isLoading,
                   editingTask, isFormOpen, localStorage, remoteTasks, remoteAreas,
                   fetchedTasks, fetchedAreas, inflight, nextId, restarts, last,
                   prevUpsert>>

NextDates ==
    \/ SetFilterPeriod
    \/ SetCurrentDate

SpecDates == InitDates /\ [][NextDates]_vars

-----------------------------------------------------------------------------
(* Properties of load() *)

FetchActs == {"fetchTasks", "fetchAreas"}

KeyOf(act) == IF act = "fetchTasks" THEN TASKS_KEY ELSE AREAS_KEY
SeedOf(act) == IF act = "fetchTasks" THEN INITIAL_TASKS ELSE INITIAL_AREAS

\* the in-memory task t carries the columns of the row, under the in-memory names
CarriesRow(t, row) ==
    /\ DOMAIN t = {"id", "date", "area", "category", "jobDescription", "assignee",
                   "status", "remarks", "photoBefore", "photoProgress", "photoAfter"}
    /\ t.id = row.id /\ t.date = row.date /\ t.area = row.area
    /\ t.category = row.category /\ t.jobDescription = row.job_description
    /\ t.assignee = row.assignee /\ t.status = row.status /\ t.remarks = row.remarks
    /\ t.photoBefore = row.photo_before /\ t.photoProgress = row.photo_progress
    /\ t.photoAfter = row.photo_after

\* the slot of a collection holds a snapshot with at least one record
HoldsSnapshot(slot) == slot.kind = "json" /\ Len(slot.text) > 0

\* C1: when the remote list call succeeds with at least one record, load()
\* returns the remote snapshot (field-mapped for tasks) and the collection's
\* cache slot holds that same snapshot when load() returns.
C1_LoadTakesRemoteSnapshot ==
    /\ (last.act = "fetchTasks" /\ last.outcome = "ok") =>
          /\ ~last.raised
          /\ Len(last.val) = Len(remoteTasks)
          /\ \A i \in DOMAIN remoteTasks : CarriesRow(last.val[i], remoteTasks[i])
          /\ localStorage[TASKS_KEY].kind = "json"
          /\ JSONparse(localStorage[TASKS_KEY]) = last.val
    /\ (last.act = "fetchAreas" /\ last.outcome = "ok") =>
          /\ ~last.raised
          /\ last.val = remoteAreas
          /\ localStorage[AREAS_KEY].kind = "json"
          /\ JSONparse(localStorage[AREAS_KEY]) = last.val

\* both fetches of one load took the remote snapshot
C1_Witness ==
    /\ last.act = "fetchAreas" /\ last.outcome = "ok" /\ Len(last.val) > 0
    /\ fetchedTasks.st = "ok" /\ Len(fetchedTasks.val) = Len(remoteTasks)
    /\ Len(remoteTasks) > 0 /\ fetchedTasks.val[1].id = remoteTasks[1].id
    /\ JSONparse(localStorage[TASKS_KEY]) = fetchedTasks.val

\* C2: when the remote list call fails (error response or thrown error) or
\* succeeds with zero records, and the cache slot holds a non-empty snapshot,
\* load() returns that snapshot and leaves the slot unchanged, alike in the
\* failure case and in the zero-record case.
C2_LoadFallsBackToCache ==
    [][ \A act \in FetchActs :
          (/\ last'.act = act
           /\ last'.outcome \in {"error", "throw", "empty"}
           /\ HoldsSnapshot(localStorage[KeyOf(act)]))
          => /\ ~last'.raised
             /\ last'.val = JSONparse(localStorage[KeyOf(act)])
             /\ localStorage' = localStorage ]_vars

\* a failed list call was answered from a non-empty cached snapshot
C2_Witness ==
    /\ last.act = "fetchTasks" /\ last.outcome \in {"error", "throw"}
    /\ ~last.raised /\ Len(last.val) > 0
    /\ HoldsSnapshot(localStorage[TASKS_KEY])
    /\ last.val = JSONparse(localStorage[TASKS_KEY])

\* C3: load() never raises to its caller, for every remote outcome and every
\* state of the cache slot; with a corrupt or absent slot and no usable remote
\* data the result is the built-in seed collection.
C3_LoadNeverRaises ==
    \A act \in FetchActs :
       last.act = act =>
          /\ ~last.raised
          /\ (/\ last.outcome \in {"error", "throw", "empty"}
              /\ localStorage[KeyOf(act)].kind \in {"absent", "corrupt"})
             => last.val = SeedOf(act)

\* C4: when the remote list returns zero records and the cache is empty (the
\* slot is absent or holds a snapshot with zero records), load() returns the
\* built-in seed collection and never an empty collection.
C4_EmptyRemoteEmptyCacheSeeds ==
    \A act \in FetchActs :
       (/\ last.act = act
        /\ last.outcome = "empty"
        /\ \/ localStorage[KeyOf(act)].kind = "absent"
           \/ localStorage[KeyOf(act)] = JSONstringify(<<>>))
       => /\ ~last.raised
          /\ last.val = SeedOf(act)
          /\ last.val # <<>>

-----------------------------------------------------------------------------
(* Properties of the mutations *)

\* out is in with exactly the elements satisfying Keep, in the same order
IsFilterOf(out, in, Keep(_)) ==
    /\ Len(out) = Cardinality({i \in DOMAIN in : Keep(in[i])})
    /\ \E f \in [DOMAIN out -> DOMAIN in] :
          /\ \A j, k \in DOMAIN out : j < k => f[j] < f[k]
          /\ \A j \in DOMAIN out : out[j] = in[f[j]] /\ Keep(in[f[j]])

EntriesWithId(ts, id) == {i \in DOMAIN ts : ts[i].id = id}

\* C5: handleAddTask changes the in-memory task collection before it suspends
\* on the network, and by key: a record whose id is not in the collection is
\* inserted, a record whose id is in the collection replaces that task in
\* place; afterwards exactly one task has that id, it equals the record, and
\* every other task is unchanged.
C5_UpsertByKey ==
    [][ last'.act = "handleAddTask" =>
          LET rec == last'.val[1]
              NotRec(t) == t.id # rec.id
          IN
          /\ remoteTasks' = remoteTasks
          /\ Len(inflight') = Len(inflight) + 1
          /\ Cardinality(EntriesWithId(tasks', rec.id)) = 1
          /\ \A i \in EntriesWithId(tasks', rec.id) : tasks'[i] = rec
          /\ IF EntriesWithId(tasks, rec.id) # {}
             THEN /\ Len(tasks') = Len(tasks)
                  /\ \A i \in DOMAIN tasks :
                        tasks'[i] = IF tasks[i].id = rec.id THEN rec ELSE tasks[i]
             ELSE /\ Len(tasks') = Len(tasks) + 1
                  /\ IsFilterOf(tasks, tasks', NotRec) ]_vars

\* C6: handleAddTask called twice in a row with an identical record leaves
\* exactly one entry with that id, equal to the record: the second call does
\* not change the collection the first call left.
C6_UpsertIdempotent ==
    [][ (last'.act = "handleAddTask" /\ prevUpsert = last'.val) =>
          /\ tasks' = tasks
          /\ Cardinality(EntriesWithId(tasks', last'.val[1].id)) = 1
          /\ \A i \in EntriesWithId(tasks', last'.val[1].id) : tasks'[i] = last'.val[1] ]_vars

\* the same record was saved a second time, right after the first
C6_Witness ==
    /\ last.act = "handleAddTask" /\ last.again
    /\ prevUpsert = last.val
    /\ EntriesWithId(tasks, last.val[1].id) # {}

DoneActs ==
    {"handleAddTask.done", "handleDelete.done", "handleAddArea.done", "handleDeleteArea.done"}

\* C7: when the remote propagation of a task or area upsert or delete fails,
\* the handler finishes without changing the in-memory collections (the local
\* change is not reverted), nothing is raised to the caller, and the mutation
\* has issued exactly one remote request, with no retry left scheduled.
C7_FailedPropagationStands ==
    [][ (last'.act \in DoneActs /\ last'.outcome \in {"error", "throw"}) =>
          /\ tasks' = tasks
          /\ availableAreas' = availableAreas
          /\ ~last'.raised
          /\ last'.n = 1
          /\ Len(inflight') = Len(inflight) - 1
          /\ remoteTasks' = remoteTasks
          /\ remoteAreas' = remoteAreas ]_vars

\* the upsert of a task failed remotely and the task is still in memory
C7_Witness ==
    /\ last.act = "handleAddTask.done" /\ last.outcome \in {"error", "throw"}
    /\ EntriesWithId(tasks, last.key) # {}
    /\ \A i \in DOMAIN remoteTasks : remoteTasks[i].id # last.key

\* C8: a confirmed delete of a task or an area removes every entry with the
\* key from the in-memory collection before the remote delete is attempted,
\* leaves all other entries unchanged, issues one remote delete for the key,
\* and a failure of that delete is swallowed; a key that is not present
\* leaves the collection unchanged.
C8_DeleteByKey ==
    [][ /\ (last'.act = "handleDelete" /\ last'.outcome = "confirmed") =>
             LET Other(t) == t.id # last'.key IN
             /\ IsFilterOf(tasks', tasks, Other)
             /\ (EntriesWithId(tasks, last'.key) = {} => tasks' = tasks)
             /\ availableAreas' = availableAreas
             /\ remoteTasks' = remoteTasks
             /\ inflight' = Append(inflight,
                    Suspended("handleDelete", "deleteTask", <<>>, last'.key, <<>>, <<>>, 1))
        /\ (last'.act = "handleDeleteArea" /\ last'.outcome = "confirmed") =>
             LET Other(x) == x.name # last'.key IN
             /\ IsFilterOf(availableAreas', availableAreas, Other)
             /\ (last'.key \notin Names(availableAreas) => availableAreas' = availableAreas)
             /\ tasks' = tasks
             /\ remoteAreas' = remoteAreas
             /\ inflight' = Append(inflight,
                    Suspended("handleDeleteArea", "deleteArea", <<>>, last'.key, <<>>, <<>>, 1))
        /\ (last'.act \in {"handleDelete", "handleDeleteArea"} /\ last'.outcome = "cancelled") =>
             /\ tasks' = tasks /\ availableAreas' = availableAreas /\ inflight' = inflight
        /\ (last'.act \in {"handleDelete.done", "handleDeleteArea.done"}) =>
             /\ ~last'.raised
             /\ last'.n = 1
             /\ tasks' = tasks /\ availableAreas' = availableAreas
             /\ Len(inflight') = Len(inflight) - 1 ]_vars

\* a task was deleted from a collection that held other tasks, which remain
C8_Witness ==
    /\ last.act = "handleDelete" /\ last.outcome = "confirmed"
    /\ tasks # <<>>
    /\ EntriesWithId(tasks, last.key) = {}
    /\ \E i \in DOMAIN inflight : inflight[i].op = "handleDelete" /\ inflight[i].name = last.key

\* C9: when an accepted rename of area old to (name', category') has
\* completed, every task that carried area = old carries area = name' and
\* category = category', no task carries the old name (when old # name'), and
\* every task that did not reference old is unchanged.
C9_RenameCascades ==
    [][ last'.act = "handleEditArea.done" =>
          LET old == last'.key
              new == last'.val[1]
          IN
          /\ Len(tasks') = Len(tasks)
          /\ \A i \in DOMAIN tasks :
                IF tasks[i].area = old
                THEN /\ tasks'[i].id = tasks[i].id
                     /\ tasks'[i].area = new.name
                     /\ tasks'[i].category = new.category
                ELSE tasks'[i] = tasks[i]
          /\ old # new.name => \A i \in DOMAIN tasks' : tasks'[i].area # old ]_vars

\* C10: in no reachable state does the in-memory area collection contain the
\* renamed area while an in-memory task still carries the old area name, in
\* particular not while the remote calls of the rename are in flight.
C10_RenameIsOneStep ==
    \A i \in DOMAIN inflight :
       (/\ EditAreaCascades(app)
        /\ inflight[i].op = "handleEditArea"
        /\ inflight[i].name # inflight[i].area[1].name
        /\ inflight[i].area[1] \in Range(availableAreas))
       => \A j \in DOMAIN tasks : tasks[j].area # inflight[i].name

-----------------------------------------------------------------------------
(* Properties of the area collection *)

UniqueNames(areas) ==
    \A i, j \in DOMAIN areas : areas[i].name = areas[j].name => i = j

\* C11: area names are unique in the in-memory area collection in every
\* reachable state: from a loaded collection with unique names, no sequence
\* of add-area, rename-area and delete-area operations produces two areas
\* with the same name.
C11_AreaNamesUnique == UniqueNames(availableAreas)

-----------------------------------------------------------------------------
(* Offline resilience *)

\* load() of the collection of act, called in the state (rt, ra, ls) with the
\* remote list call ending in outcome
LoadOf(act, outcome, rt, ra, ls) ==
    IF act = "fetchTasks" THEN fetchTasks(ListResponse(outcome, rt), ls)
    ELSE fetchAreas(ListResponse(outcome, ra), ls)

\* C12: offline resilience: when every remote call fails, consecutive load()
\* calls with no mutation in between each complete without raising, all
\* return the same collection (the cache snapshot if present, otherwise the
\* seed), and none of them changes the cache slot.
C12_OfflineLoadsStable ==
    [][ \A act \in FetchActs :
          (last'.act = act /\ last'.outcome \in {"error", "throw"}) =>
             /\ ~last'.raised
             /\ last'.val = IF localStorage[KeyOf(act)].kind = "json"
                            THEN JSONparse(localStorage[KeyOf(act)])
                            ELSE SeedOf(act)
             /\ localStorage' = localStorage
             /\ \A o \in {"error", "throw"} :
                   LET next == LoadOf(act, o, remoteTasks', remoteAreas', localStorage') IN
                   /\ ~next.raised
                   /\ next.val = last'.val
                   /\ next.ls = localStorage' ]_vars

-----------------------------------------------------------------------------
(* Round trip through the wire format *)

TaskFields ==
    {"id", "date", "area", "category", "jobDescription", "assignee", "status",
     "remarks", "photoBefore", "photoProgress", "photoAfter"}

SameFields(t, u) == \A f \in TaskFields : Get(t, f) = Get(u, f)

\* C13: round trip: after an upsert of a task whose remote propagation
\* succeeded, the next load() that reads the remote table returns a
\* collection that contains a task with that id whose eleven fields equal the
\* upserted record: the in-memory-to-wire mapping of upsertTask followed by
\* the wire-to-in-memory mapping of fetchTasks is the identity on these fields.
C13_RoundTrip ==
    [][ (last'.act = "handleAddTask.done" /\ last'.outcome = "ok") =>
          LET rec == last'.val[1]
              next == LoadOf("fetchTasks", "ok", remoteTasks', remoteAreas', localStorage')
          IN
          /\ ~next.raised
          /\ Cardinality(EntriesWithId(next.val, rec.id)) = 1
          /\ \A i \in EntriesWithId(next.val, rec.id) :
                /\ DOMAIN next.val[i] = TaskFields
                /\ SameFields(next.val[i], rec) ]_vars

\* an edited record has reached the remote table, replacing the row of its id
C13_Witness ==
    /\ last.act = "handleAddTask.done" /\ last.outcome = "ok"
    /\ last.val[1].jobDescription = "Polish Brass"
    /\ \E i \in DOMAIN remoteTasks :
          /\ remoteTasks[i].id = last.key
          /\ remoteTasks[i].job_description = "Polish Brass"
          /\ MapRow(remoteTasks[i]) = last.val[1]

-----------------------------------------------------------------------------
(* Properties of the date filter *)

\* the calendar day, weekday (0 is Sunday), month and year a date string names
DayOf(s) == NewDate(s) \div 24
WeekdayOf(s) == (DayOf(s) + 4) % 7
MonthOf(s) == CivilFromDays(DayOf(s)).m
YearOf(s) == CivilFromDays(DayOf(s)).y

\* what the filter keeps of the tasks for a period, at the reference date
Kept(period) == filterTasks(tasks, period, currentDate, timeZone)

\* out is ts with exactly the tasks in keep, in the same order (ids are unique)
KeepsExactly(out, ts, keep) ==
    LET Pos(t) == CHOOSE k \in DOMAIN ts : ts[k] = t IN
    /\ Range(out) = keep
    /\ Len(out) = Cardinality({i \in DOMAIN ts : ts[i] \in keep})
    /\ \A i \in 1..(Len(out) - 1) : Pos(out[i]) < Pos(out[i + 1])

\* C14: for every reference date R, getWeekRange(R) returns a start that is
\* a Sunday on or before R and an end that is the Saturday exactly 6 days
\* after start, so start <= R <= end and the window spans exactly 7 days.
C14_WeekRangeIsSundayToSaturday ==
    filterPeriod = "weekly" =>
       LET r == getWeekRange(currentDate, timeZone) IN
       /\ WeekdayOf(r.start) = 0
       /\ WeekdayOf(r.end) = 6
       /\ DayOf(r.end) = DayOf(r.start) + 6
       /\ DayOf(r.start) <= DayOf(currentDate)
       /\ DayOf(currentDate) <= DayOf(r.end)

\* C15: for every task collection and every reference date R, what the
\* filter keeps for 'daily' is a subset of what it keeps for 'weekly': a task
\* dated exactly R is inside R's weekly window.
C15_DailyWithinWeekly ==
    filterPeriod = "daily" => Range(filteredTasks) \subseteq Range(Kept("weekly"))

\* C16: for every task collection and every reference date R the period
\* results are nested: weekly within monthly within yearly within all, also
\* when R's week crosses a month or a year boundary.
C16_PeriodsNested ==
    /\ Range(Kept("weekly")) \subseteq Range(Kept("monthly"))
    /\ Range(Kept("monthly")) \subseteq Range(Kept("yearly"))
    /\ Range(Kept("yearly")) \subseteq Range(Kept("all"))

\* C16 as amended: for every task collection and every reference date R,
\* monthly is within yearly, yearly within all, and weekly within all; weekly
\* is not within monthly or yearly when R's week crosses a month or year
\* boundary.
C16_MonthlyYearlyAllNested ==
    /\ Range(Kept("monthly")) \subseteq Range(Kept("yearly"))
    /\ Range(Kept("yearly")) \subseteq Range(Kept("all"))
    /\ Range(Kept("weekly")) \subseteq Range(Kept("all"))

\* the month shown holds some, not all, of the tasks of its year, and the
\* collection has tasks of another year
C16_Witness ==
    /\ filterPeriod = "monthly"
    /\ filteredTasks # <<>>
    /\ Len(filteredTasks) < Len(Kept("yearly"))
    /\ Len(Kept("yearly")) < Len(tasks)

\* C17: 'daily' keeps exactly the tasks whose date string equals R, no more
\* and no fewer, for every collection and every R; 'all' keeps the entire
\* collection for every R.
C17_DailyExactAllEverything ==
    /\ filterPeriod = "daily" =>
          KeepsExactly(filteredTasks, tasks, {t \in Range(tasks) : t.date = currentDate})
    /\ filterPeriod = "all" => filteredTasks = tasks

\* the one task of the reference date is shown, out of many
C17_Witness ==
    /\ filterPeriod = "daily"
    /\ Len(filteredTasks) = 1
    /\ filteredTasks[1].date = currentDate
    /\ Len(tasks) > 1
    /\ currentDate # Today

\* C18: 'monthly' keeps exactly the tasks whose date has the calendar year
\* and month of R, 'yearly' exactly the tasks whose date has the calendar year
\* of R, also on the first day of a month or year and whatever the client's
\* time-zone offset.
C18_MonthlyYearlyByCalendar ==
    /\ filterPeriod = "monthly" =>
          KeepsExactly(filteredTasks, tasks,
              {t \in Range(tasks) : /\ YearOf(t.date) = YearOf(currentDate)
                                    /\ MonthOf(t.date) = MonthOf(currentDate)})
    /\ filterPeriod = "yearly" =>
          KeepsExactly(filteredTasks, tasks,
              {t \in Range(tasks) : YearOf(t.date) = YearOf(currentDate)})

\* C19: of the tasks dated 2024-03-10, 2024-03-11, ... 2024-03-17, 'weekly'
\* at 2024-03-12 keeps exactly the seven dated 2024-03-10 to 2024-03-16; in
\* general 'weekly' keeps the tasks from the Sunday on or before R to the
\* Saturday after it, both included, and none of the day before or after.
C19_WeeklyScenario ==
    filterPeriod = "weekly" =>
       /\ (tasks = DatedTasks(DaysFromCivil(2024, 3, 10), MaxSpan) /\ currentDate = "2024-03-12")
             => filteredTasks = SubSeq(tasks, 1, 7)
       /\ LET sunday == DayOf(currentDate) - WeekdayOf(currentDate) IN
          KeepsExactly(filteredTasks, tasks,
              {t \in Range(tasks) : sunday <= DayOf(t.date) /\ DayOf(t.date) <= sunday + 6})

-----------------------------------------------------------------------------
(* The outcome of the propagation *)

ResumeActs == DoneActs \cup {"handleEditArea.deleted", "handleEditArea.done"}

\* the handler a resume step belongs to
HandlerOf(act) ==
    IF act = "handleAddTask.done" THEN "handleAddTask"
    ELSE IF act = "handleDelete.done" THEN "handleDelete"
    ELSE IF act = "handleAddArea.done" THEN "handleAddArea"
    ELSE IF act = "handleDeleteArea.done" THEN "handleDeleteArea"
    ELSE "handleEditArea"

\* C20: the outcome of remote propagation has no visible effect: for every
\* mutation (task upsert, task delete, area add, area delete, area rename)
\* the in-memory task and area collections and the cache slots after the
\* handler resumes are the same whether its remote call succeeded or failed:
\* they are determined by the state before and the suspended invocation alone,
\* and the handler goes on the same way.
C20_OutcomeInvisible ==
    [][ last'.act \in ResumeActs =>
          \E i \in DOMAIN inflight :
             LET p == inflight[i]
                 cascades == last'.act = "handleEditArea.done" /\ EditAreaCascades(app)
                 ts == IF cascades THEN CascadeRename(p.snap, p.name, p.area[1]) ELSE tasks
             IN
             /\ p.op = HandlerOf(last'.act)
             /\ tasks' = ts
             /\ availableAreas' = availableAreas
             /\ localStorage' = SyncEffects(app, localStorage, isLoading, ts, cascades,
                                            availableAreas, FALSE)
             /\ inflight' = IF last'.act = "handleEditArea.deleted"
                            THEN [inflight EXCEPT ![i].pc = "upsertArea", ![i].sent = p.sent + 1]
                            ELSE RemoveAt(inflight, i)
             /\ ~last'.raised ]_vars

\* a rename whose remote calls failed has cascaded to the tasks all the same
C20_Witness ==
    /\ last.act = "handleEditArea.done" /\ last.outcome \in {"error", "throw"}
    /\ EditAreaCascades(app)
    /\ last.key # last.val[1].name
    /\ \E i \in DOMAIN tasks : tasks[i].area = last.val[1].name
    /\ \A i \in DOMAIN remoteAreas : remoteAreas[i].name # last.val[1].name

-----------------------------------------------------------------------------
(* No offline write queue *)

\* the rows of the remote table tasks with the id
RowsWithId(rows, id) == {rows[i] : i \in {j \in DOMAIN rows : rows[j].id = id}}

\* the invocations in flight that will send a request for the task id
InFlightFor(fl, id) ==
    {i \in DOMAIN fl :
        \/ fl[i].op = "handleAddTask" /\ fl[i].task[1].id = id
        \/ fl[i].op = "handleDelete" /\ fl[i].name = id}

\* C21: there is no offline write queue: after an upsert whose remote
\* propagation failed, the record is in the in-memory collection and in the
\* local cache and not in the remote store; no later step sends it to the
\* remote except a mutation issued for that same entity; and after a later
\* upsert of the same id has succeeded remotely, the remote record of that id
\* equals the in-memory record.
C21_NoOfflineWriteQueue ==
    [][ /\ (/\ app = "cloud"
            /\ last'.act = "handleAddTask.done"
            /\ last'.outcome \in {"error", "throw"}
            /\ prevUpsert = last'.val) =>
              /\ last'.val[1] \in Range(tasks')
              /\ localStorage'[TASKS_KEY].kind = "json"
              /\ last'.val[1] \in Range(JSONparse(localStorage'[TASKS_KEY]))
              /\ remoteTasks' = remoteTasks
        /\ \A id \in {UUIDs[k] : k \in DOMAIN UUIDs} \cup {"1"} :
              RowsWithId(remoteTasks', id) # RowsWithId(remoteTasks, id) =>
                 /\ last'.act \in {"handleAddTask.done", "handleDelete.done"}
                 /\ last'.key = id
                 /\ Len(inflight') = Len(inflight) - 1
        /\ (/\ app = "cloud"
            /\ last'.act = "handleAddTask.done"
            /\ last'.outcome = "ok"
            /\ prevUpsert = last'.val
            /\ InFlightFor(inflight', last'.key) = {}) =>
              /\ Cardinality(RowsWithId(remoteTasks', last'.key)) = 1
              /\ \E i \in DOMAIN tasks' :
                    /\ tasks'[i].id = last'.key
                    /\ \A row \in RowsWithId(remoteTasks', last'.key) :
                          SameFields(MapRow(row), tasks'[i]) ]_vars

-----------------------------------------------------------------------------
(* The duplicate-name guard *)

\* C22: duplicate-name guard of handleAddArea and handleEditArea: adding an
\* area whose name already exists, or renaming an area to a name held by a
\* different existing area, is rejected before storageService is called: the
\* in-memory area and task collections are unchanged and no remote upsert or
\* delete request is issued.  A rename that keeps the name (category change
\* only) is not rejected.
C22_DuplicateNameGuard ==
    [][ (app = "cloud" /\ last'.act \in {"handleAddArea", "handleEditArea"}) =>
          LET new == last'.val[1]
              old == last'.key
              duplicate ==
                 IF last'.act = "handleAddArea" THEN new.name \in Names(availableAreas)
                 ELSE new.name # old /\ new.name \in Names(availableAreas)
          IN
          /\ duplicate =>
                /\ last'.outcome = "rejected"
                /\ last'.n = 0
                /\ availableAreas' = availableAreas
                /\ tasks' = tasks
                /\ inflight' = inflight
                /\ remoteAreas' = remoteAreas
                /\ localStorage' = localStorage
          /\ ~duplicate =>
                /\ last'.outcome = "accepted"
                /\ new \in Range(availableAreas')
                /\ Len(inflight') = Len(inflight) + 1 ]_vars

\* a rename to the name of another area was rejected, and nothing is in flight
C22_Witness ==
    /\ app = "cloud"
    /\ last.act = "handleEditArea" /\ last.outcome = "rejected"
    /\ last.key # last.val[1].name
    /\ {last.key, last.val[1].name} \subseteq Names(availableAreas)
    /\ inflight = <<>>

-----------------------------------------------------------------------------
(* Task ids *)

UniqueIds(ts) == \A i, j \in DOMAIN ts : ts[i].id = ts[j].id => i = j

\* C23: task ids are unique in the in-memory task collection in every
\* reachable state: from a loaded collection with unique ids, no sequence of
\* add-task, edit-task, delete-task and rename-area operations (new ids drawn
\* fresh by the form, edits reusing the edited task's id) produces two tasks
\* with the same id.
C23_TaskIdsUnique == UniqueIds(tasks)

\* a task was added and then edited, next to the task that was loaded
C23_Witness ==
    /\ last.act = "handleAddTask" /\ last.outcome = "edit"
    /\ Len(tasks) >= 2
    /\ \E i \in DOMAIN tasks : tasks[i] = last.val[1] /\ tasks[i].id = UUIDs[1]
    /\ UniqueIds(tasks)

-----------------------------------------------------------------------------
(* Rename at the remote tier *)

\* the rows of the remote table areas, as areas
RemoteAreaValues(rows) == {MkArea(rows[i].name, rows[i].category) : i \in DOMAIN rows}

\* C24: a rename is issued to the remote as delete(oldName) and then
\* upsert(newValue), in that order: the upsert is issued only after the delete
\* call has completed, and also when the delete failed; a succeeded delete
\* leaves no row of the old name, a succeeded upsert leaves the new value in
\* the remote area collection and brings no row of the old name back (when
\* the names differ), also when only the category was edited.
C24_RenameIsDeleteThenUpsert ==
    [][ /\ (last'.act = "handleEditArea" /\ last'.outcome = "accepted") =>
             /\ remoteAreas' = remoteAreas
             /\ inflight' = Append(inflight,
                    Suspended("handleEditArea", "deleteArea", <<>>, last'.key, last'.val,
                              IF EditAreaCascades(app) THEN tasks ELSE <<>>, 1))
        /\ last'.act = "handleEditArea.deleted" =>
             \E i \in DOMAIN inflight :
                /\ inflight[i].op = "handleEditArea" /\ inflight[i].pc = "deleteArea"
                /\ inflight[i].name = last'.key /\ inflight[i].sent = 1
                /\ inflight' = [inflight EXCEPT ![i].pc = "upsertArea", ![i].sent = 2]
                /\ IF last'.outcome = "ok"
                   THEN /\ last'.key \notin Names(remoteAreas')
                        /\ RemoteAreaValues(remoteAreas') \subseteq RemoteAreaValues(remoteAreas)
                   ELSE remoteAreas' = remoteAreas
        /\ last'.act = "handleEditArea.done" =>
             \E i \in DOMAIN inflight :
                /\ inflight[i].op = "handleEditArea" /\ inflight[i].pc = "upsertArea"
                /\ inflight[i].area = last'.val /\ inflight[i].sent = 2
                /\ inflight' = RemoveAt(inflight, i)
                /\ IF last'.outcome = "ok"
                   THEN /\ last'.val[1] \in RemoteAreaValues(remoteAreas')
                        /\ Cardinality({j \in DOMAIN remoteAreas' :
                                           remoteAreas'[j].name = last'.val[1].name}) = 1
                        /\ (last'.key # last'.val[1].name /\ last'.key \notin Names(remoteAreas))
                              => last'.key \notin Names(remoteAreas')
                   ELSE remoteAreas' = remoteAreas ]_vars

\* a rename whose delete failed has still sent its upsert, which succeeded
C24_Witness ==
    /\ last.act = "handleEditArea.done" /\ last.outcome = "ok" /\ last.n = 2
    /\ last.key # last.val[1].name
    /\ last.val[1] \in RemoteAreaValues(remoteAreas)
    /\ last.key \in Names(remoteAreas)

-----------------------------------------------------------------------------
(* Deleting an area *)

\* C25: deleting an area leaves the task collection unchanged: neither
\* handleDeleteArea(name) nor its completion changes tasks, so every task,
\* also one whose area is the deleted name, keeps its place and its fields.
C25_DeleteAreaKeepsTasks ==
    [][ last'.act \in {"handleDeleteArea", "handleDeleteArea.done"} => tasks' = tasks ]_vars

\* an area was deleted and a task still names it
C25_Witness ==
    /\ last.act = "handleDeleteArea.done" /\ last.outcome = "ok"
    /\ last.key \notin Names(availableAreas)
    /\ \E i \in DOMAIN tasks : tasks[i].area = last.key

-----------------------------------------------------------------------------
(* Restarts *)

\* C26: a deliberately emptied remote collection re-seeds from the local
\* fallback: when the user has deleted every task, the remote delete has
\* succeeded and the remote holds zero tasks, the load() of the next start
\* returns a non-empty collection (the cache snapshot or the seed).
C26_EmptiedRemoteReseeds ==
    [][ (/\ last'.act = "mount"
         /\ last.act = "handleDelete.done" /\ last.outcome = "ok"
         /\ tasks = <<>> /\ remoteTasks = <<>> /\ inflight = <<>>)
        => LET r == fetchTasks(ListResponse("ok", remoteTasks'), localStorage') IN
           ~r.raised /\ r.val # <<>> ]_vars

-----------------------------------------------------------------------------
(* Mutations during a rename *)

\* C27: no concurrent mutation is lost to an area rename: when the rename
\* handler finishes, the task collection still has the tasks it had just
\* before (those added or edited while the remote calls were in flight
\* included, those deleted not brought back), in the same order, each with
\* the same fields except the area and category of a task of the renamed area.
C27_NoMutationLostToRename ==
    [][ last'.act = "handleEditArea.done" =>
          /\ Len(tasks') = Len(tasks)
          /\ \A i \in DOMAIN tasks :
                /\ i \in DOMAIN tasks'
                /\ tasks'[i].id = tasks[i].id
                /\ \A f \in TaskFields \ {"area", "category"} : tasks'[i][f] = tasks[i][f]
                /\ tasks[i].area # last'.key => tasks'[i] = tasks[i] ]_vars

-----------------------------------------------------------------------------
(* A failed upsert and the next start *)

\* the last step was the return of a failed upsert of a record that is in
\* memory and in the cache, and the remote holds some other record
FailedUpsertApplied ==
    /\ last.act = "handleAddTask.done" /\ last.outcome \in {"error", "throw"}
    /\ last.val[1] \in Range(tasks)
    /\ localStorage[TASKS_KEY].kind = "json"
    /\ JSONstringifyObject(last.val[1]) \in Range(JSONparse(localStorage[TASKS_KEY]))
    /\ \E i \in DOMAIN remoteTasks : remoteTasks[i].id # last.val[1].id

\* load() of the start that follows the step, its list call succeeding
NextStartLoad == fetchTasks(ListResponse("ok", remoteTasks'), localStorage')

\* C28 as claimed: a locally applied mutation survives a restart: after a
\* task upsert whose remote propagation failed, the load() of the next start,
\* reaching a remote that holds another record, yields a collection and a
\* cache that contain the locally upserted record.
C28_FailedUpsertSurvivesRestart ==
    [][ (last'.act = "mount" /\ FailedUpsertApplied) =>
          /\ ~NextStartLoad.raised
          /\ last.val[1] \in Range(NextStartLoad.val)
          /\ JSONstringifyObject(last.val[1]) \in Range(JSONparse(NextStartLoad.ls[TASKS_KEY])) ]_vars

\* C28 as amended: after a task upsert whose remote propagation failed, the
\* load() of the next start, reaching a remote that holds another record,
\* returns exactly the remote snapshot and overwrites the tasks slot with it:
\* the locally upserted record is in the loaded collection and in the cache
\* only if the remote holds a row with the same field values.
C28_FailedUpsertLostAtRestart ==
    [][ (last'.act = "mount" /\ FailedUpsertApplied) =>
          /\ ~NextStartLoad.raised
          /\ remoteTasks' = remoteTasks
          /\ NextStartLoad.val = [i \in DOMAIN remoteTasks |-> MapRow(remoteTasks[i])]
          /\ NextStartLoad.ls[TASKS_KEY] = JSONstringify(NextStartLoad.val)
          /\ last.val[1] \in Range(NextStartLoad.val)
                <=> \E i \in DOMAIN remoteTasks : MapRow(remoteTasks[i]) = last.val[1] ]_vars

\* a start after which load() has returned a non-empty remote snapshot, and
\* neither the loaded collection nor the cache has the record of an id that
\* handleAddTask had handed out
C28_Witness ==
    /\ restarts >= 1
    /\ last.act = "fetchTasks" /\ last.outcome = "ok" /\ ~last.raised
    /\ last.val # <<>>
    /\ last.val = [i \in DOMAIN remoteTasks |-> MapRow(remoteTasks[i])]
    /\ localStorage[TASKS_KEY] = JSONstringify(last.val)
    /\ \E k \in 1..nextId : \A i \in DOMAIN last.val : last.val[i].id # UUIDs[k]

-----------------------------------------------------------------------------
(* The cache as a replica of the in-memory state *)

\* the slot holds a serialized collection whose elements are tasks
HoldsTasks(slot) ==
    slot.kind = "json" =>
       \A i \in DOMAIN slot.text :
          {"id", "date", "area"} \subseteq DOMAIN slot.text[i] /\ "name" \notin DOMAIN slot.text[i]

\* the slot holds a serialized collection whose elements are areas
HoldsAreas(slot) ==
    slot.kind = "json" =>
       \A i \in DOMAIN slot.text :
          {"name", "category"} \subseteq DOMAIN slot.text[i] /\ "id" \notin DOMAIN slot.text[i]

\* C29: the local cache is a replica of the in-memory state of the App with
\* the cache-sync effects: while the initial load is in progress no slot is
\* written except by load() storing a non-empty remote snapshot, so the empty
\* placeholder collections never overwrite a cached snapshot; once loading has
\* finished each slot equals the serialization of its in-memory collection
\* after every state change; the tasks slot only ever holds task collections
\* and the areas slot only area collections.
C29_CacheIsReplica ==
    /\ [](/\ HoldsTasks(localStorage[TASKS_KEY])
          /\ HoldsAreas(localStorage[AREAS_KEY])
          /\ (app = "cloud" /\ ~isLoading) =>
                /\ localStorage[TASKS_KEY] = JSONstringify(tasks)
                /\ localStorage[AREAS_KEY] = JSONstringify(availableAreas))
    /\ [][ isLoading' =>
             \A act \in FetchActs :
                localStorage'[KeyOf(act)] # localStorage[KeyOf(act)] =>
                   /\ last'.act = act /\ last'.outcome = "ok"
                   /\ last'.val # <<>>
                   /\ localStorage'[KeyOf(act)] = JSONstringify(last'.val) ]_vars

\* after a restart over cached snapshots and a load, a mutation of the task
\* collection has been written through to the tasks slot
C29_Witness ==
    /\ app = "cloud" /\ restarts >= 1 /\ ~isLoading
    /\ last.act = "handleAddTask" /\ last.outcome = "new"
    /\ Len(tasks) >= 2
    /\ localStorage[TASKS_KEY] = JSONstringify(tasks)
    /\ localStorage[AREAS_KEY] = JSONstringify(availableAreas)

-----------------------------------------------------------------------------
(* The derived statistics *)

RECURSIVE SumOfTasks(_)
SumOfTasks(data) == IF data = <<>> THEN 0 ELSE Head(data).tasks + SumOfTasks(Tail(data))

\* how many entries of ts satisfy Keep
CountOf(ts, Keep(_)) == Cardinality({i \in DOMAIN ts : Keep(ts[i])})

\* C30: the derived statistics partition the filtered subset: when every
\* filtered task has one of the four statuses, total is the sum of completed,
\* pending and inProgress, where completed counts the Completed and the
\* Inspected tasks; the chart has one entry for each area with at least one
\* filtered task, its count is the number of filtered tasks of that area, and
\* the counts sum to the number of filtered tasks whose area exists, which is
\* at most total.
C30_StatsPartition ==
    LET ft == filteredTasks
        s == stats(ft)
        c == chartData(ft, availableAreas)
        Done(t) == t.status \in {"Completed", "Inspected"}
        Placed(t) == t.area \in Names(availableAreas)
    IN
    /\ s.total = Len(ft)
    /\ s.completed = CountOf(ft, Done)
    /\ (\A i \in DOMAIN ft : ft[i].status \in {"Pending", "In Progress", "Completed", "Inspected"})
          => s.total = s.completed + s.pending + s.inProgress
    /\ SumOfTasks(c) <= s.total
    /\ SumOfTasks(c) = CountOf(ft, Placed)
    /\ \A i \in DOMAIN c :
          LET OfArea(t) == t.area = c[i].name IN
          c[i].tasks > 0 /\ c[i].tasks = CountOf(ft, OfArea)
    /\ {c[i].name : i \in DOMAIN c} = {ft[i].area : i \in DOMAIN ft} \cap Names(availableAreas)

\* a filtered subset with an Inspected task and a task of a deleted area,
\* charted with fewer bars than there are areas
C30_Witness ==
    LET c == chartData(filteredTasks, availableAreas) IN
    /\ filterPeriod = "weekly"
    /\ \E i \in DOMAIN filteredTasks : filteredTasks[i].status = "Inspected"
    /\ \E i \in DOMAIN filteredTasks : filteredTasks[i].area \notin Names(availableAreas)
    /\ \E i \in DOMAIN c : c[i].tasks >= 2
    /\ 0 < Len(c) /\ Len(c) < Len(availableAreas)
    /\ SumOfTasks(c) < stats(filteredTasks).total

====
